---- MODULE Spec2Model ----
(***************************************************************************)
(* Model of health-check.py: lambda_handler, the scheduled health probe.   *)
(* One invocation runs sequentially through the API Gateway check, the     *)
(* creation of the DynamoDB client, the DynamoDB check, the metric loop    *)
(* and the return.  The three managed services are the environment: each   *)
(* call's outcome is chosen nondeterministically.                          *)
(***************************************************************************)
EXTENDS Integers, Sequences, FiniteSets, TLC

\* ---- bounds --------------------------------------------------------------
MaxInvocations == 2
MaxClock == 2

\* ---- outcomes the environment can produce ---------------------------------
HttpCodes == {200, 201, 404, 503}
HttpErrors == {"connection_error", "timeout", "dns_failure"}
HttpOutcomes ==
  {[kind |-> "response", status |-> c, err |-> "none"] : c \in HttpCodes}
    \cup {[kind |-> "raise", status |-> 0, err |-> e] : e \in HttpErrors}

DescribeErrors == {"ResourceNotFound", "AccessDenied", "Throttling"}
DescribeOutcomes == {"ok"} \cup DescribeErrors
ClientOutcomes == {"ok", "raise"}
PutOutcomes == {"ok", "raise"}

\* ---- Python dict (insertion ordered) as a sequence of <<key, value>> ------
HasKey(d, k) == \E i \in DOMAIN d : d[i][1] = k
Keys(d) == {d[i][1] : i \in DOMAIN d}
DictGet(d, k) == d[CHOOSE i \in DOMAIN d : d[i][1] = k][2]
DictSet(d, k, v) ==
  IF HasKey(d, k)
    THEN [i \in DOMAIN d |-> IF d[i][1] = k THEN <<k, v>> ELSE d[i]]
    ELSE Append(d, <<k, v>>)

Reverse(s) == [i \in DOMAIN s |-> s[Len(s) + 1 - i]]
ItemsReversed(d) == Reverse(d)
\* dict.items(): the pairs in insertion order
Items(d) == d

\* ---- the checks -----------------------------------------------------------
ApiGatewayStatusAny2xx(o) ==
  IF o.kind = "raise" THEN "unhealthy"
  ELSE IF o.status \in 200..299 THEN "healthy" ELSE "degraded"
\* lines 16-20: 'healthy' if resp.status == 200 else 'degraded'; except: 'unhealthy'
ApiGatewayStatus(o) ==
  IF o.kind = "raise" THEN "unhealthy"
  ELSE IF o.status = 200 THEN "healthy" ELSE "degraded"

DynamoDBStatusThrottleDegraded(o) ==
  IF o = "ok" THEN "healthy"
  ELSE IF o = "Throttling" THEN "degraded" ELSE "unhealthy"
\* lines 24-28: describe_table succeeded -> 'healthy'; except: 'unhealthy'
DynamoDBStatus(o) == IF o = "ok" THEN "healthy" ELSE "unhealthy"

RecordDynamoDBOnlyOnSuccess(services, o) ==
  IF o = "ok" THEN DictSet(services, "dynamodb", "healthy") ELSE services
\* lines 26 and 28: health_status['services']['dynamodb'] = ...
RecordDynamoDB(services, o) == DictSet(services, "dynamodb", DynamoDBStatus(o))

\* ---- the metric sample ----------------------------------------------------
MetricValueNotUnhealthy(status) == IF status = "unhealthy" THEN 0 ELSE 1
\* line 36: 1 if status == 'healthy' else 0
MetricValue(status) == IF status = "healthy" THEN 1 ELSE 0

\* line 35: f'{service}_health'
MetricName(service) == service \o "_health"

\* lines 34-39: the MetricData entry
MetricDatum(service, status, now) ==
  [MetricName |-> MetricName(service), Value |-> MetricValue(status),
   Unit |-> "None", Timestamp |-> now]

\* ---- the response ---------------------------------------------------------
\* datetime.isoformat(): a string carrying the instant
IsoFormat(t) == <<"iso", t>>

RECURSIVE DumpMembers(_)
DumpMembers(d) ==
  IF d = <<>> THEN <<>>
  ELSE <<(<<"key", d[1][1]>>), (<<"str", d[1][2]>>)>> \o DumpMembers(Tail(d))

\* json.dumps(health_status): the token stream of the JSON text
JsonDumps(hs) ==
  <<(<<"{">>), (<<"key", "timestamp">>), (<<"str", hs.timestamp>>),
    (<<"key", "services">>), (<<"{">>)>>
    \o DumpMembers(hs.services)
    \o <<(<<"}">>), (<<"}">>)>>

\* json.loads, as far as the keys go: nesting depth of token j
Depth(toks, j) ==
  Cardinality({i \in 1..j : toks[i][1] = "{"})
    - Cardinality({i \in 1..(j - 1) : toks[i][1] = "}"})
\* the member keys, with multiplicity, of the object opened at token 'open'
MemberKeyPositions(toks, open) ==
  {j \in DOMAIN toks :
     /\ j > open
     /\ toks[j][1] = "key"
     /\ Depth(toks, j) = Depth(toks, open)
     /\ \A k \in open..j : Depth(toks, k) >= Depth(toks, open)}
MemberKeys(toks, open) == {toks[j][2] : j \in MemberKeyPositions(toks, open)}
\* position of the value of top-level member k
ValuePosition(toks, k) ==
  1 + CHOOSE j \in MemberKeyPositions(toks, 1) : toks[j][2] = k

StatusCode == 200
ResponseFailsWhenUnhealthy(hs) ==
  [statusCode |-> IF \E i \in DOMAIN hs.services : hs.services[i][2] = "unhealthy"
                    THEN 503 ELSE 200,
   body |-> JsonDumps(hs)]
\* lines 42-45
Response(hs) == [statusCode |-> StatusCode, body |-> JsonDumps(hs)]

\* ---- state ----------------------------------------------------------------
VARIABLES
  pc,             \* position of lambda_handler
  health_status,  \* the local dict of lines 10-13
  items,          \* the pairs the for loop of line 31 iterates over
  idx,            \* the loop's position in items
  httpCalls,      \* outcomes of http.request calls of this invocation
  clientCalls,    \* outcomes of boto3.client('dynamodb') calls
  describeCalls,  \* outcomes of describe_table calls
  putCalls,       \* put_metric_data calls: [datum, outcome]
  returned,       \* <<>> or <<the returned value>>
  raised,         \* <<>> or <<the call whose exception left the handler>>
  apiBeforeDynamo,\* services as they were when the DynamoDB check began
  invocations,    \* invocations started so far
  clock           \* datetime.now()

vars == <<pc, health_status, items, idx, httpCalls, clientCalls, describeCalls,
          putCalls, returned, raised, apiBeforeDynamo, invocations, clock>>

NoStatus == [timestamp |-> <<"unset", 0>>, services |-> <<>>]

Init ==
  /\ pc = "idle"
  /\ health_status = NoStatus
  /\ items = <<>>
  /\ idx = 1
  /\ httpCalls = <<>>
  /\ clientCalls = <<>>
  /\ describeCalls = <<>>
  /\ putCalls = <<>>
  /\ returned = <<>>
  /\ raised = <<>>
  /\ apiBeforeDynamo = <<>>
  /\ invocations = 0
  /\ clock = 0

\* time passes between any two steps
Tick ==
  /\ clock < MaxClock
  /\ clock' = clock + 1
  /\ UNCHANGED <<pc, health_status, items, idx, httpCalls, clientCalls,
                 describeCalls, putCalls, returned, raised, apiBeforeDynamo,
                 invocations>>

\* the scheduler triggers the handler; lines 10-13
Invoke ==
  /\ pc \in {"idle", "done", "failed"}
  /\ invocations < MaxInvocations
  /\ invocations' = invocations + 1
  /\ health_status' = [timestamp |-> IsoFormat(clock), services |-> <<>>]
  /\ items' = <<>>
  /\ idx' = 1
  /\ httpCalls' = <<>>
  /\ clientCalls' = <<>>
  /\ describeCalls' = <<>>
  /\ putCalls' = <<>>
  /\ returned' = <<>>
  /\ raised' = <<>>
  /\ apiBeforeDynamo' = <<>>
  /\ pc' = "check_api"
  /\ UNCHANGED clock

\* lines 16-20
CheckApiGatewayRetrying ==
  /\ pc = "check_api"
  /\ \E o \in HttpOutcomes :
       /\ httpCalls' = Append(httpCalls, o)
       /\ health_status' =
            [health_status EXCEPT !.services =
               DictSet(@, "api_gateway", ApiGatewayStatus(o))]
       /\ pc' = IF o.kind = "raise" /\ Len(httpCalls) < 1
                  THEN "check_api" ELSE "get_client"
  /\ UNCHANGED <<items, idx, clientCalls, describeCalls, putCalls, returned,
                 raised, apiBeforeDynamo, invocations, clock>>
CheckApiGateway ==
  /\ pc = "check_api"
  /\ \E o \in HttpOutcomes :
       /\ httpCalls' = Append(httpCalls, o)
       /\ health_status' =
            [health_status EXCEPT !.services =
               DictSet(@, "api_gateway", ApiGatewayStatus(o))]
  /\ pc' = "get_client"
  /\ UNCHANGED <<items, idx, clientCalls, describeCalls, putCalls, returned,
                 raised, apiBeforeDynamo, invocations, clock>>

\* line 23: boto3.client('dynamodb'), outside any try
GetDynamoDBClient ==
  /\ pc = "get_client"
  /\ \E o \in ClientOutcomes :
       /\ clientCalls' = Append(clientCalls, o)
       /\ IF o = "ok"
            THEN pc' = "check_dynamodb" /\ UNCHANGED raised
            ELSE pc' = "failed" /\ raised' = <<"boto3.client">>
  /\ apiBeforeDynamo' = health_status.services
  /\ UNCHANGED <<health_status, items, idx, httpCalls, describeCalls, putCalls,
                 returned, invocations, clock>>

\* lines 24-28
CheckDynamoDB ==
  /\ pc = "check_dynamodb"
  /\ \E o \in DescribeOutcomes :
       /\ describeCalls' = Append(describeCalls, o)
       /\ health_status' =
            [health_status EXCEPT !.services = RecordDynamoDB(@, o)]
       /\ items' = Items(RecordDynamoDB(health_status.services, o))
  /\ idx' = 1
  /\ pc' = "send_metrics"
  /\ UNCHANGED <<httpCalls, clientCalls, putCalls, returned, raised,
                 apiBeforeDynamo, invocations, clock>>

\* lines 31-40: one iteration of the for loop
SendMetricSwallowingErrors ==
  /\ pc = "send_metrics"
  /\ idx <= Len(items)
  /\ \E o \in PutOutcomes :
       putCalls' = Append(putCalls,
          [datum |-> MetricDatum(items[idx][1], items[idx][2], clock),
           outcome |-> o])
  /\ idx' = idx + 1
  /\ UNCHANGED <<pc, raised, health_status, items, httpCalls, clientCalls,
                 describeCalls, returned, apiBeforeDynamo, invocations, clock>>
SendMetric ==
  /\ pc = "send_metrics"
  /\ idx <= Len(items)
  /\ \E o \in PutOutcomes :
       /\ putCalls' = Append(putCalls,
            [datum |-> MetricDatum(items[idx][1], items[idx][2], clock),
             outcome |-> o])
       /\ IF o = "ok"
            THEN idx' = idx + 1 /\ UNCHANGED <<pc, raised>>
            ELSE pc' = "failed" /\ raised' = <<"put_metric_data">>
                 /\ UNCHANGED idx
  /\ UNCHANGED <<health_status, items, httpCalls, clientCalls, describeCalls,
                 returned, apiBeforeDynamo, invocations, clock>>

\* lines 42-45, reached when the loop is exhausted
Return ==
  /\ pc = "send_metrics"
  /\ idx > Len(items)
  /\ returned' = <<Response(health_status)>>
  /\ pc' = "done"
  /\ UNCHANGED <<health_status, items, idx, httpCalls, clientCalls,
                 describeCalls, putCalls, raised, apiBeforeDynamo, invocations,
                 clock>>

Next ==
  \/ Tick
  \/ Invoke
  \/ CheckApiGateway
  \/ GetDynamoDBClient
  \/ CheckDynamoDB
  \/ SendMetric
  \/ Return

Spec == Init /\ [][Next]_vars

TypeOK ==
  /\ pc \in {"idle", "check_api", "get_client", "check_dynamodb",
             "send_metrics", "done", "failed"}
  /\ invocations \in 0..MaxInvocations
  /\ clock \in 0..MaxClock
  /\ Len(returned) <= 1
  /\ Len(raised) <= 1

\* ---- reading the state ----------------------------------------------------
Returned == Len(returned) = 1
Body == returned[1].body
\* the string value of member k of the object opened at token 'open'
MemberValue(toks, open, k) ==
  toks[1 + CHOOSE j \in MemberKeyPositions(toks, open) : toks[j][2] = k][2]
ReportedServices == ValuePosition(Body, "services")
ReportedStatus(service) == MemberValue(Body, ReportedServices, service)
Ended == pc \in {"done", "failed"}
PutCallsNamed(name) == {i \in DOMAIN putCalls : putCalls[i].datum.MetricName = name}
SomePutRaised == \E i \in DOMAIN putCalls : putCalls[i].outcome = "raise"

\* ---- claims ---------------------------------------------------------------

\* C1: no exception from either check propagates: whenever an invocation has
\* ended, both statuses were recorded and the exception that ended it, if any,
\* was not raised by the API Gateway check, by the creation of the DynamoDB
\* client or by the DynamoDB check.
C1_NoCheckExceptionPropagates ==
  Ended =>
    /\ Keys(health_status.services) = {"api_gateway", "dynamodb"}
    /\ raised \notin {<<"http.request">>, <<"boto3.client">>, <<"describe_table">>}

\* C2: the body of every returned response has exactly the keys timestamp and
\* services, each once, and services has exactly the keys api_gateway and
\* dynamodb, each once.
C2_ReportShape ==
  Returned =>
    /\ MemberKeys(Body, 1) = {"timestamp", "services"}
    /\ Cardinality(MemberKeyPositions(Body, 1)) = 2
    /\ MemberKeys(Body, ReportedServices) = {"api_gateway", "dynamodb"}
    /\ Cardinality(MemberKeyPositions(Body, ReportedServices)) = 2
C2_Witness ==
  /\ Returned
  /\ httpCalls[1].kind = "raise"
  /\ describeCalls[1] = "ResourceNotFound"

\* C3: the reported api_gateway status is healthy exactly when the GET
\* completed with code 200, degraded exactly when it completed with another
\* code, unhealthy exactly when it raised.
C3_ApiGatewayThreeWay ==
  Returned =>
    LET o == httpCalls[1]
        s == ReportedStatus("api_gateway")
    IN /\ s \in {"healthy", "degraded", "unhealthy"}
       /\ (s = "healthy") <=> (o.kind = "response" /\ o.status = 200)
       /\ (s = "degraded") <=> (o.kind = "response" /\ o.status # 200)
       /\ (s = "unhealthy") <=> (o.kind = "raise")
C3_Witness ==
  /\ Returned
  /\ httpCalls[1].kind = "response"
  /\ httpCalls[1].status = 201
  /\ ReportedStatus("api_gateway") = "degraded"

\* C4: the reported dynamodb status is healthy exactly when describe_table
\* completed without error, unhealthy when it raised, and never degraded.
C4_DynamoDBTwoWay ==
  Returned =>
    LET o == describeCalls[1]
        s == ReportedStatus("dynamodb")
    IN /\ (s = "healthy") <=> (o = "ok")
       /\ (o \in DescribeErrors) => (s = "unhealthy")
       /\ s # "degraded"
C4_Witness ==
  /\ Returned
  /\ describeCalls[1] = "Throttling"
  /\ ReportedStatus("dynamodb") = "unhealthy"

\* C5: when an invocation has returned, exactly two metric calls were made,
\* one named <service>_health per service, each with value 1 exactly when the
\* service's reported status is healthy and 0 otherwise.
C5_OneMetricPerService ==
  Returned =>
    /\ Len(putCalls) = 2
    /\ \A n \in {<<"api_gateway", "api_gateway_health">>,
                 <<"dynamodb", "dynamodb_health">>} :
         /\ Cardinality(PutCallsNamed(n[2])) = 1
         /\ \A i \in PutCallsNamed(n[2]) :
              /\ (putCalls[i].datum.Value = 1) <=> (ReportedStatus(n[1]) = "healthy")
              /\ (putCalls[i].datum.Value = 0) <=> (ReportedStatus(n[1]) # "healthy")
    /\ \A i \in DOMAIN putCalls : putCalls[i].datum.Value \in {0, 1}
C5_Witness ==
  /\ Returned
  /\ ReportedStatus("api_gateway") = "degraded"
  /\ ReportedStatus("dynamodb") = "healthy"
  /\ putCalls[1].datum.Value = 0
  /\ putCalls[2].datum.Value = 1

\* C6: every returned response has statusCode 200, whatever the checks found.
C6_AlwaysStatus200 == Returned => returned[1].statusCode = 200
C6_Witness ==
  /\ Returned
  /\ ReportedStatus("api_gateway") = "unhealthy"
  /\ ReportedStatus("dynamodb") = "unhealthy"

\* C7: once a metric-emission call has raised, the invocation has failed with
\* that exception and has returned no report.
C7_MetricErrorPropagates ==
  SomePutRaised =>
    /\ pc = "failed"
    /\ raised = <<"put_metric_data">>
    /\ returned = <<>>
C7_Witness ==
  /\ SomePutRaised
  /\ pc = "failed"
  /\ Keys(health_status.services) = {"api_gateway", "dynamodb"}
  /\ \A i \in DOMAIN health_status.services : health_status.services[i][2] = "healthy"

\* C8: within one invocation the GET is issued at most once, describe_table at
\* most once, and put_metric_data at most once per service.
C8_NoRetries ==
  /\ Len(httpCalls) <= 1
  /\ Len(describeCalls) <= 1
  /\ Cardinality(PutCallsNamed("api_gateway_health")) <= 1
  /\ Cardinality(PutCallsNamed("dynamodb_health")) <= 1
  /\ Len(putCalls) <= 2
C8_Witness ==
  /\ pc = "failed"
  /\ Len(httpCalls) = 1 /\ httpCalls[1].kind = "raise"
  /\ Len(describeCalls) = 1 /\ describeCalls[1] = "AccessDenied"
  /\ Len(putCalls) = 1 /\ putCalls[1].outcome = "raise"

\* C9: the checks are independent: in every invocation that has ended, the
\* DynamoDB check was executed, its recorded status is the one the
\* describe_table outcome gives, and the api_gateway status is the one
\* recorded before the DynamoDB check.
C9_DynamoDBCheckAlwaysRuns ==
  Ended =>
    /\ Len(describeCalls) = 1
    /\ HasKey(health_status.services, "dynamodb")
    /\ DictGet(health_status.services, "dynamodb") =
         (IF describeCalls[1] = "ok" THEN "healthy" ELSE "unhealthy")
    /\ DictGet(health_status.services, "api_gateway") =
         DictGet(apiBeforeDynamo, "api_gateway")

\* C10: no metric call is made before both checks have completed; the calls
\* are made in the order api_gateway_health, dynamodb_health; if the first
\* raises the second is never attempted; if the second raises the first has
\* been emitted and the invocation fails without a report.
C10_MetricOrdering ==
  /\ putCalls # <<>> =>
       /\ Len(httpCalls) = 1 /\ Len(describeCalls) = 1
       /\ Keys(health_status.services) = {"api_gateway", "dynamodb"}
       /\ putCalls[1].datum.MetricName = "api_gateway_health"
       /\ putCalls[1].outcome = "raise" => Len(putCalls) = 1
  /\ Len(putCalls) >= 2 =>
       /\ putCalls[2].datum.MetricName = "dynamodb_health"
       /\ putCalls[1].outcome = "ok"
       /\ putCalls[2].outcome = "raise" => (pc = "failed" /\ returned = <<>>)
C10_Witness ==
  /\ Len(putCalls) = 2
  /\ putCalls[1].outcome = "ok"
  /\ putCalls[2].outcome = "raise"
  /\ pc = "failed"
====
